---------------------------- MODULE Spec2Model ----------------------------
(***************************************************************************)
(* The record service of src/main.py: FastAPI handlers over six SQL        *)
(* tables.  Every handler runs inside "with Session() as session:" and is  *)
(* a short sequence of statements (select, insert/update/delete + commit,  *)
(* re-read).  A handler is modelled by an operator that executes the       *)
(* statement its request stands at; Run executes a handler to completion.  *)
(*                                                                         *)
(* Column widths (String(n), 32-bit Integer, SmallInteger Id) are not      *)
(* modelled: the payload values used here fit their columns.  Bodies that  *)
(* pydantic rejects never reach a handler and are not requests here.       *)
(*                                                                         *)
(*   Spec      requests are served one after another (each action is one   *)
(*             whole handler);                                             *)
(*   SpecConc  one worker thread executes its handler statement by         *)
(*             statement while other requests are served in between.       *)
(***************************************************************************)
EXTENDS Integers, Sequences, FiniteSets, TLC

(***************************************************************************)
(* Bounds of the model.                                                    *)
(***************************************************************************)
\* rows the IDENTITY columns of Items and MRVMasterProducts hand out in all
MaxInserts == 2

\* ids a client puts in a path
PathIds == {1, 2}

\* ids a client gives to a ProductDescription row
DescIds == {1, 2}

(***************************************************************************)
(* Values.  Optional[...] fields and nullable columns hold None or Some(v). *)
(***************************************************************************)
None == << >>

Some(v) == << v >>

\* Python truthiness of an Optional[int]: None and 0 are falsy
TruthyOpt(x) == x # None /\ x[1] # 0

\* Python truthiness of an int
TruthyInt(n) == n # 0

(***************************************************************************)
(* Request bodies the pydantic models accept.                              *)
(***************************************************************************)
ItemPayloads ==
  { [id |-> None, name |-> "Milk", description |-> Some("2%"), category |-> Some("Dairy")],
    [id |-> Some(2), name |-> "Tea", description |-> None, category |-> None] }

\* a MRVMasterProducts body; prod_desc_key and prod_cat_key are >= 1.
\* (validate_to_json, offered through __get_validators__, is not consulted
\* by pydantic 2 when it validates a BaseModel: the lookups that decide a
\* request are the handler's own.)
Product(id, num, typ, desc, cat, fmmo, fat, uom, conv, mtype) ==
  [id |-> id, mrv_product_number |-> num, prod_typ_key |-> typ,
   prod_desc_key |-> desc, prod_cat_key |-> cat,
   product_fmmoclassification |-> fmmo, product_fat_content |-> fat,
   uom_key |-> uom, conversion_ounces |-> conv, mrv_type |-> mtype]

ProductPayloads ==
  { Product(None, 100, Some(1), 1, 1, Some(2), Some(3), Some(1), Some(8), Some(1)),
    Product(Some(2), 0, None, 2, 1, None, None, None, None, None),
    Product(None, 7, Some(0), 1, 1, None, None, Some(0), None, None),
    Product(None, 7, None, 3, 1, None, None, None, None, None),
    Product(None, 7, None, 1, 2, None, None, None, None, None),
    Product(None, 7, Some(2), 1, 1, None, None, None, None, None),
    Product(None, 7, None, 1, 1, None, None, Some(-1), None, None) }

DescriptionPayloads ==
  { [id |-> 1, product_description |-> "Whole Milk"],
    [id |-> 2, product_description |-> "Skim Milk"] }

(***************************************************************************)
(* The database: one variable per table (a function from Id to the row),   *)
(* and the IDENTITY counters of the two autoincrement keys.                *)
(***************************************************************************)
VARIABLES items_table, mrv_master_products_table, product_description_table,
          uom_table, product_category_table, product_types_table,
          items_identity, mrv_identity,
          resp, thread, interleaved

tables == << items_table, mrv_master_products_table, product_description_table,
             uom_table, product_category_table, product_types_table,
             items_identity, mrv_identity >>

vars == << items_table, mrv_master_products_table, product_description_table,
           uom_table, product_category_table, product_types_table,
           items_identity, mrv_identity, resp, thread, interleaved >>

\* the database as one value, for the handlers
DB ==
  [items |-> items_table, mrv |-> mrv_master_products_table,
   desc |-> product_description_table, uom |-> uom_table,
   cat |-> product_category_table, typ |-> product_types_table,
   items_id |-> items_identity, mrv_id |-> mrv_identity]

\* the database after a step
SetDB(d) ==
  /\ items_table' = d.items
  /\ mrv_master_products_table' = d.mrv
  /\ product_description_table' = d.desc
  /\ uom_table' = d.uom
  /\ product_category_table' = d.cat
  /\ product_types_table' = d.typ
  /\ items_identity' = d.items_id
  /\ mrv_identity' = d.mrv_id

(***************************************************************************)
(* SQL statements on a table.                                              *)
(***************************************************************************)
EmptyTable == << >>

\* select().where(Id == id).fetchone() is not None
Exists(table, id) == id \in DOMAIN table

\* insert / update of the row with this Id
Put(table, id, row) == [i \in DOMAIN table \cup {id} |-> IF i = id THEN row ELSE table[i]]

\* mutant: update().values(...) without its where clause
UpdateEveryRow(table, id, row) ==
  IF Exists(table, id) THEN [i \in DOMAIN table |-> [row EXCEPT !.Id = i]] ELSE table

\* update().where(Id == id).values(...): rows that do not match are left alone
UpdateWhere(table, id, row) == IF Exists(table, id) THEN Put(table, id, row) ELSE table

\* delete().where(Id == id)
DeleteWhere(table, id) == [i \in DOMAIN table \ {id} |-> table[i]]

\* select().fetchall(): the rows in the order of the primary key
RECURSIVE RowsFrom(_, _)
RowsFrom(table, ids) ==
  IF ids = {} THEN << >>
  ELSE LET m == CHOOSE i \in ids : \A j \in ids : i <= j
       IN  << table[m] >> \o RowsFrom(table, ids \ {m})

FetchAll(table) == RowsFrom(table, DOMAIN table)

(***************************************************************************)
(* Rows.                                                                   *)
(***************************************************************************)
ItemRow(id, item) ==
  [Id |-> id, Name |-> item.name, Description |-> item.description,
   Category |-> item.category]

ProductRow(id, product) ==
  [Id |-> id,
   MRV_PRODUCT_NUMBER |-> product.mrv_product_number,
   ProdTypKey |-> product.prod_typ_key,
   ProdDescKey |-> product.prod_desc_key,
   ProdCatKey |-> product.prod_cat_key,
   PRODUCT_FMMO_CLASSIFICATION |-> product.product_fmmoclassification,
   PRODUCT_FAT_CONTENT |-> product.product_fat_content,
   UoMKey |-> product.uom_key,
   CONVERSION_OUNCES |-> product.conversion_ounces,
   MRV_TYPE |-> product.mrv_type]

DescriptionRow(id, text) == [Id |-> id, Product_Description |-> text]

(***************************************************************************)
(* Requests.  A request is inside its handler's with-block from the moment *)
(* it exists: Session() has been called once and the session is open.      *)
(* pc names the statement the handler stands at; "done" is after the       *)
(* with-block, with the HTTP status and the response body.                 *)
(***************************************************************************)
NewRequest(op, id, payload) ==
  [op |-> op, id |-> id, payload |-> payload, pc |-> "begin",
   session |-> "open", opened |-> 1, status |-> 0, body |-> None, key |-> 0]

NoRequest ==
  [op |-> "none", id |-> 0, payload |-> None, pc |-> "idle",
   session |-> "none", opened |-> 0, status |-> 0, body |-> None, key |-> 0]

InFlight(r) == r.pc \notin {"idle", "done"}

\* mutant: session.close() as the handler's last statement, which an
\* exception skips
WithExitOnReturn(r) ==
  [r EXCEPT !.pc = "done", !.session = IF r.status = 200 THEN "closed" ELSE "open"]

\* leaving the with-block, by return or by exception: Session.__exit__ closes
WithExit(r) == [r EXCEPT !.pc = "done", !.session = "closed"]

Return(r, body) == WithExit([r EXCEPT !.status = 200, !.body = body])

\* raise HTTPException(status_code, detail)
Raise(r, code, detail) == WithExit([r EXCEPT !.status = code, !.body = detail])

\* an exception no handler catches: FastAPI answers 500
Unhandled(r) == Raise(r, 500, "Internal Server Error")

Goto(r, pc) == [r EXCEPT !.pc = pc]

Result(d, r) == [db |-> d, req |-> r]

(***************************************************************************)
(* Items                                                                   *)
(***************************************************************************)
\* mutant: the insert takes the Id the payload carries
create_item_payload_id(d, r) ==
  CASE r.pc = "begin" ->
         LET item_id == IF r.payload.id # None THEN r.payload.id[1] ELSE d.items_id
         IN  Result([d EXCEPT !.items = Put(@, item_id, ItemRow(item_id, r.payload)),
                              !.items_id = @ + 1],
                    [Goto(r, "reread") EXCEPT !.key = item_id])
    [] r.pc = "reread" ->
         IF Exists(d.items, r.key)
         THEN Result(d, Return(r, d.items[r.key]))
         ELSE Result(d, Unhandled(r))

create_item(d, r) ==
  CASE r.pc = "begin" ->
         \* insert + commit; inserted_primary_key[0]
         LET item_id == d.items_id
         IN  Result([d EXCEPT !.items = Put(@, item_id, ItemRow(item_id, r.payload)),
                              !.items_id = @ + 1],
                    [Goto(r, "reread") EXCEPT !.key = item_id])
    [] r.pc = "reread" ->
         IF Exists(d.items, r.key)
         THEN Result(d, Return(r, d.items[r.key]))
         ELSE Result(d, Unhandled(r))       \* zip(columns, None)

get_items(d, r) == Result(d, Return(r, FetchAll(d.items)))

get_item(d, r) ==
  IF ~ Exists(d.items, r.id)
  THEN Result(d, Raise(r, 404, "Item not found"))
  ELSE Result(d, Return(r, d.items[r.id]))

\* mutant: a field the payload omits keeps its value (a PATCH)
update_item_keeps_omitted(d, r) ==
  CASE r.pc = "begin" ->
         IF ~ Exists(d.items, r.id)
         THEN Result(d, Raise(r, 404, "Item not found"))
         ELSE Result(d, Goto(r, "update"))
    [] r.pc = "update" ->
         LET old == d.items[r.id]
             new == [Id |-> r.id, Name |-> r.payload.name,
                     Description |-> IF r.payload.description = None
                                     THEN old.Description ELSE r.payload.description,
                     Category |-> IF r.payload.category = None
                                  THEN old.Category ELSE r.payload.category]
         IN  Result([d EXCEPT !.items = UpdateWhere(@, r.id, new)], Goto(r, "reread"))
    [] r.pc = "reread" ->
         IF Exists(d.items, r.id)
         THEN Result(d, Return(r, d.items[r.id]))
         ELSE Result(d, Unhandled(r))

update_item(d, r) ==
  CASE r.pc = "begin" ->
         IF ~ Exists(d.items, r.id)
         THEN Result(d, Raise(r, 404, "Item not found"))
         ELSE Result(d, Goto(r, "update"))
    [] r.pc = "update" ->
         Result([d EXCEPT !.items = UpdateWhere(@, r.id, ItemRow(r.id, r.payload))],
                Goto(r, "reread"))
    [] r.pc = "reread" ->
         IF Exists(d.items, r.id)
         THEN Result(d, Return(r, d.items[r.id]))
         ELSE Result(d, Unhandled(r))

\* mutant: the delete is never committed (the session closes, the
\* transaction is rolled back)
delete_item_uncommitted(d, r) ==
  CASE r.pc = "begin" ->
         IF ~ Exists(d.items, r.id)
         THEN Result(d, Raise(r, 404, "Item not found"))
         ELSE Result(d, Goto(r, "delete"))
    [] r.pc = "delete" -> Result(d, Return(r, "Item deleted"))

delete_item(d, r) ==
  CASE r.pc = "begin" ->
         IF ~ Exists(d.items, r.id)
         THEN Result(d, Raise(r, 404, "Item not found"))
         ELSE Result(d, Goto(r, "delete"))
    [] r.pc = "delete" ->
         Result([d EXCEPT !.items = DeleteWhere(@, r.id)],
                Return(r, "Item deleted"))

(***************************************************************************)
(* MRVMasterProducts                                                       *)
(***************************************************************************)
\* "Validate all foreign keys": one existence lookup per referenced field.
\* A lookup is a statement only when its key is truthy ("if key and not
\* session.execute(...)"): from `pc` on, the next lookup that is executed,
\* or `next` when none is left
RECURSIVE NextLookup(_, _, _)
NextLookup(product, pc, next) ==
  CASE pc = "fk_desc" ->
         IF TruthyInt(product.prod_desc_key) THEN pc ELSE NextLookup(product, "fk_cat", next)
    [] pc = "fk_cat" ->
         IF TruthyInt(product.prod_cat_key) THEN pc ELSE NextLookup(product, "fk_typ", next)
    [] pc = "fk_typ" ->
         IF TruthyOpt(product.prod_typ_key) THEN pc ELSE NextLookup(product, "fk_uom", next)
    [] pc = "fk_uom" ->
         IF TruthyOpt(product.uom_key) THEN pc ELSE next

\* mutant: the lookups of the optional keys only; prod_desc_key and
\* prod_cat_key are taken as they come
ValidateOptionalKeys(d, r, pc, next) ==
  LET product == r.payload
  IN  CASE pc = "fk_desc" -> Result(d, Goto(r, NextLookup(product, "fk_cat", next)))
        [] pc = "fk_cat" -> Result(d, Goto(r, NextLookup(product, "fk_typ", next)))
        [] pc = "fk_typ" ->
             IF ~ Exists(d.typ, product.prod_typ_key[1])
             THEN Result(d, Raise(r, 400, "Invalid ProductTypes ID"))
             ELSE Result(d, Goto(r, NextLookup(product, "fk_uom", next)))
        [] pc = "fk_uom" ->
             IF ~ Exists(d.uom, product.uom_key[1])
             THEN Result(d, Raise(r, 400, "Invalid UoM ID"))
             ELSE Result(d, Goto(r, next))

\* mutant: a ProductCategory the payload names and the table lacks is
\* inserted on the spot instead of answered 400
ValidateOrAddCategory(d, r, pc, next) ==
  LET product == r.payload
  IN  CASE pc = "fk_desc" ->
             IF ~ Exists(d.desc, product.prod_desc_key)
             THEN Result(d, Raise(r, 400, "Invalid ProductDescription ID"))
             ELSE Result(d, Goto(r, NextLookup(product, "fk_cat", next)))
        [] pc = "fk_cat" ->
             Result([d EXCEPT !.cat =
                       IF Exists(d.cat, product.prod_cat_key)
                       THEN d.cat
                       ELSE Put(d.cat, product.prod_cat_key,
                                [Id |-> product.prod_cat_key,
                                 PRODUCT_CATEGORY |-> "Fluid"])],
                    Goto(r, NextLookup(product, "fk_typ", next)))
        [] pc = "fk_typ" ->
             IF ~ Exists(d.typ, product.prod_typ_key[1])
             THEN Result(d, Raise(r, 400, "Invalid ProductTypes ID"))
             ELSE Result(d, Goto(r, NextLookup(product, "fk_uom", next)))
        [] pc = "fk_uom" ->
             IF ~ Exists(d.uom, product.uom_key[1])
             THEN Result(d, Raise(r, 400, "Invalid UoM ID"))
             ELSE Result(d, Goto(r, next))

\* the lookup at `pc`: HTTP 400 when no row has the key, else on to the
\* next lookup
ValidateForeignKeys(d, r, pc, next) ==
  LET product == r.payload
  IN  CASE pc = "fk_desc" ->
             IF ~ Exists(d.desc, product.prod_desc_key)
             THEN Result(d, Raise(r, 400, "Invalid ProductDescription ID"))
             ELSE Result(d, Goto(r, NextLookup(product, "fk_cat", next)))
        [] pc = "fk_cat" ->
             IF ~ Exists(d.cat, product.prod_cat_key)
             THEN Result(d, Raise(r, 400, "Invalid ProductCategory ID"))
             ELSE Result(d, Goto(r, NextLookup(product, "fk_typ", next)))
        [] pc = "fk_typ" ->
             IF ~ Exists(d.typ, product.prod_typ_key[1])
             THEN Result(d, Raise(r, 400, "Invalid ProductTypes ID"))
             ELSE Result(d, Goto(r, NextLookup(product, "fk_uom", next)))
        [] pc = "fk_uom" ->
             IF ~ Exists(d.uom, product.uom_key[1])
             THEN Result(d, Raise(r, 400, "Invalid UoM ID"))
             ELSE Result(d, Goto(r, next))

\* insert + commit; inserted_primary_key[0]
create_mrv_master_product_insert(d, r) ==
  LET product_id == d.mrv_id
  IN  Result([d EXCEPT !.mrv = Put(@, product_id, ProductRow(product_id, r.payload)),
                       !.mrv_id = @ + 1],
             [Goto(r, "reread") EXCEPT !.key = product_id])

create_mrv_master_product(d, r) ==
  CASE r.pc = "begin" ->
         \* the first statement is the first lookup, or the insert when
         \* every key is falsy
         LET pc == NextLookup(r.payload, "fk_desc", "insert")
         IN  IF pc = "insert"
             THEN create_mrv_master_product_insert(d, r)
             ELSE ValidateForeignKeys(d, r, pc, "insert")
    [] r.pc \in {"fk_cat", "fk_typ", "fk_uom"} -> ValidateForeignKeys(d, r, r.pc, "insert")
    [] r.pc = "insert" -> create_mrv_master_product_insert(d, r)
    [] r.pc = "reread" ->
         IF Exists(d.mrv, r.key)
         THEN Result(d, Return(r, d.mrv[r.key]))
         ELSE Result(d, Unhandled(r))

get_mrv_master_products(d, r) == Result(d, Return(r, FetchAll(d.mrv)))

get_mrv_master_product(d, r) ==
  IF ~ Exists(d.mrv, r.id)
  THEN Result(d, Raise(r, 404, "Product not found"))
  ELSE Result(d, Return(r, d.mrv[r.id]))

update_mrv_master_product(d, r) ==
  CASE r.pc = "begin" ->
         IF ~ Exists(d.mrv, r.id)
         THEN Result(d, Raise(r, 404, "Product not found"))
         ELSE Result(d, Goto(r, NextLookup(r.payload, "fk_desc", "update")))
    [] r.pc \in {"fk_desc", "fk_cat", "fk_typ", "fk_uom"} ->
         ValidateForeignKeys(d, r, r.pc, "update")
    [] r.pc = "update" ->
         Result([d EXCEPT !.mrv = UpdateWhere(@, r.id, ProductRow(r.id, r.payload))],
                Goto(r, "reread"))
    [] r.pc = "reread" ->
         IF Exists(d.mrv, r.id)
         THEN Result(d, Return(r, d.mrv[r.id]))
         ELSE Result(d, Unhandled(r))

delete_mrv_master_product(d, r) ==
  CASE r.pc = "begin" ->
         IF ~ Exists(d.mrv, r.id)
         THEN Result(d, Raise(r, 404, "Product not found"))
         ELSE Result(d, Goto(r, "delete"))
    [] r.pc = "delete" ->
         Result([d EXCEPT !.mrv = DeleteWhere(@, r.id)],
                Return(r, "Product deleted"))

(***************************************************************************)
(* ProductDescription                                                      *)
(***************************************************************************)
create_product_description(d, r) ==
  CASE r.pc = "begin" ->
         IF Exists(d.desc, r.payload.id)
         THEN Result(d, Unhandled(r))       \* IntegrityError: duplicate primary key
         ELSE Result([d EXCEPT !.desc = Put(@, r.payload.id,
                          DescriptionRow(r.payload.id, r.payload.product_description))],
                     Goto(r, "reread"))
    [] r.pc = "reread" ->
         IF Exists(d.desc, r.payload.id)
         THEN Result(d, Return(r, d.desc[r.payload.id]))
         ELSE Result(d, Unhandled(r))

\* the only handler with a try/except: a failing query is answered by
\* HTTPException(500)
get_product_descriptions(d, r, fault) ==
  IF fault
  THEN Result(d, Raise(r, 500, "Internal server error"))
  ELSE Result(d, Return(r, FetchAll(d.desc)))

update_product_description(d, r) ==
  CASE r.pc = "begin" ->
         IF ~ Exists(d.desc, r.id)
         THEN Result(d, Raise(r, 404, "Description not found"))
         ELSE Result(d, Goto(r, "update"))
    [] r.pc = "update" ->
         Result([d EXCEPT !.desc = UpdateWhere(@, r.id,
                     DescriptionRow(r.id, r.payload.product_description))],
                Goto(r, "reread"))
    [] r.pc = "reread" ->
         IF Exists(d.desc, r.id)
         THEN Result(d, Return(r, d.desc[r.id]))
         ELSE Result(d, Unhandled(r))

\* rows of MRVMasterProducts with ProdDescKey == id
Dependents(d, id) == {i \in DOMAIN d.mrv : d.mrv[i].ProdDescKey = id}

\* mutant: the delete without its check for dependent products
delete_product_description_unchecked(d, r) ==
  CASE r.pc = "begin" -> Result(d, Goto(r, "exists"))
    [] r.pc = "exists" ->
         IF ~ Exists(d.desc, r.id)
         THEN Result(d, Raise(r, 404, "Description not found"))
         ELSE Result(d, Goto(r, "delete"))
    [] r.pc = "delete" ->
         Result([d EXCEPT !.desc = DeleteWhere(@, r.id)],
                Return(r, "Description deleted"))

delete_product_description(d, r) ==
  CASE r.pc = "begin" ->
         IF Dependents(d, r.id) # {}
         THEN Result(d, Raise(r, 400, "Cannot delete description with dependent products"))
         ELSE Result(d, Goto(r, "exists"))
    [] r.pc = "exists" ->
         IF ~ Exists(d.desc, r.id)
         THEN Result(d, Raise(r, 404, "Description not found"))
         ELSE Result(d, Goto(r, "delete"))
    [] r.pc = "delete" ->
         Result([d EXCEPT !.desc = DeleteWhere(@, r.id)],
                Return(r, "Description deleted"))

(***************************************************************************)
(* UoM, ProductCategory, ProductTypes: read only                           *)
(***************************************************************************)
get_uom(d, r) == Result(d, Return(r, FetchAll(d.uom)))

get_product_categories(d, r) == Result(d, Return(r, FetchAll(d.cat)))

get_product_types(d, r) == Result(d, Return(r, FetchAll(d.typ)))

(***************************************************************************)
(* The statement a request stands at, and a handler run to its end.        *)
(* fault: the statement's query fails in the database (the connection is   *)
(* lost, a timeout); nothing is written and the exception leaves the       *)
(* with-block.                                                             *)
(***************************************************************************)
Handler(d, r) ==
  CASE r.op = "create_item" -> create_item(d, r)
    [] r.op = "get_items" -> get_items(d, r)
    [] r.op = "get_item" -> get_item(d, r)
    [] r.op = "update_item" -> update_item(d, r)
    [] r.op = "delete_item" -> delete_item(d, r)
    [] r.op = "create_mrv_master_product" -> create_mrv_master_product(d, r)
    [] r.op = "get_mrv_master_products" -> get_mrv_master_products(d, r)
    [] r.op = "get_mrv_master_product" -> get_mrv_master_product(d, r)
    [] r.op = "update_mrv_master_product" -> update_mrv_master_product(d, r)
    [] r.op = "delete_mrv_master_product" -> delete_mrv_master_product(d, r)
    [] r.op = "create_product_description" -> create_product_description(d, r)
    [] r.op = "update_product_description" -> update_product_description(d, r)
    [] r.op = "delete_product_description" -> delete_product_description(d, r)
    [] r.op = "get_uom" -> get_uom(d, r)
    [] r.op = "get_product_categories" -> get_product_categories(d, r)
    [] r.op = "get_product_types" -> get_product_types(d, r)

Step(d, r, fault) ==
  IF r.op = "get_product_descriptions" THEN get_product_descriptions(d, r, fault)
  ELSE IF fault THEN Result(d, Unhandled(r))
  ELSE Handler(d, r)

RECURSIVE Run(_, _)
Run(d, r) ==
  IF r.pc = "done" THEN Result(d, r)
  ELSE LET s == Step(d, r, FALSE) IN Run(s.db, s.req)

(***************************************************************************)
(* Init: the tables as the service finds them.  create_all creates missing *)
(* tables empty; no endpoint writes UoM, ProductCategory or ProductTypes,  *)
(* so their rows are whatever the database held before.                    *)
(***************************************************************************)
Lookups ==
  { [uom |-> EmptyTable, cat |-> EmptyTable, typ |-> EmptyTable],
    [uom |-> (1 :> [Id |-> 1, UNIT_OF_MEASURE |-> "oz"]),
     cat |-> (1 :> [Id |-> 1, PRODUCT_CATEGORY |-> "Fluid"]),
     typ |-> (1 :> [Id |-> 1, Product_Type |-> "Milk"])] }

Init ==
  /\ items_table = EmptyTable
  /\ mrv_master_products_table = EmptyTable
  /\ product_description_table = EmptyTable
  /\ \E l \in Lookups :
       /\ uom_table = l.uom
       /\ product_category_table = l.cat
       /\ product_types_table = l.typ
  /\ items_identity = 1
  /\ mrv_identity = 1
  /\ resp = NoRequest
  /\ thread = NoRequest
  /\ interleaved = FALSE

\* rows the IDENTITY columns have handed out, and the one the thread's
\* create is about to take
Inserted ==
  (items_identity - 1) + (mrv_identity - 1)
    + (IF /\ thread.op \in {"create_item", "create_mrv_master_product"}
          /\ thread.pc \notin {"reread", "done"}
       THEN 1 ELSE 0)

\* one request served from its first statement to its last
Serve(r) ==
  LET out == Run(DB, r)
  IN  /\ SetDB(out.db)
      /\ resp' = out.req
      /\ UNCHANGED << thread, interleaved >>

(***************************************************************************)
(* The requests clients send.  A create is sent while the IDENTITY columns *)
(* have handed out fewer than MaxInserts rows.                             *)
(***************************************************************************)
CreateItemRequests ==
  IF Inserted < MaxInserts
  THEN {NewRequest("create_item", 0, item) : item \in ItemPayloads} ELSE {}

GetItemsRequests == {NewRequest("get_items", 0, None)}

GetItemRequests == {NewRequest("get_item", id, None) : id \in PathIds}

UpdateItemRequests ==
  {NewRequest("update_item", id, item) : id \in PathIds, item \in ItemPayloads}

DeleteItemRequests == {NewRequest("delete_item", id, None) : id \in PathIds}

CreateProductRequests ==
  IF Inserted < MaxInserts
  THEN {NewRequest("create_mrv_master_product", 0, p) : p \in ProductPayloads} ELSE {}

GetProductsRequests == {NewRequest("get_mrv_master_products", 0, None)}

GetProductRequests == {NewRequest("get_mrv_master_product", id, None) : id \in PathIds}

UpdateProductRequests ==
  {NewRequest("update_mrv_master_product", id, p) : id \in PathIds, p \in ProductPayloads}

DeleteProductRequests == {NewRequest("delete_mrv_master_product", id, None) : id \in PathIds}

CreateDescriptionRequests ==
  {NewRequest("create_product_description", 0, p) : p \in DescriptionPayloads}

GetDescriptionsRequests == {NewRequest("get_product_descriptions", 0, None)}

UpdateDescriptionRequests ==
  {NewRequest("update_product_description", id, p) : id \in DescIds, p \in DescriptionPayloads}

DeleteDescriptionRequests ==
  {NewRequest("delete_product_description", id, None) : id \in DescIds}

GetUomRequests == {NewRequest("get_uom", 0, None)}

GetCategoriesRequests == {NewRequest("get_product_categories", 0, None)}

GetTypesRequests == {NewRequest("get_product_types", 0, None)}

(***************************************************************************)
(* Spec: one action per endpoint, each the whole handler, served while no  *)
(* other handler is in flight.                                             *)
(***************************************************************************)
CreateItem ==
  /\ ~ InFlight(thread)
  /\ \E r \in CreateItemRequests : Serve(r)

GetItems ==
  /\ ~ InFlight(thread)
  /\ \E r \in GetItemsRequests : Serve(r)

GetItem ==
  /\ ~ InFlight(thread)
  /\ \E r \in GetItemRequests : Serve(r)

UpdateItem ==
  /\ ~ InFlight(thread)
  /\ \E r \in UpdateItemRequests : Serve(r)

DeleteItem ==
  /\ ~ InFlight(thread)
  /\ \E r \in DeleteItemRequests : Serve(r)

CreateProduct ==
  /\ ~ InFlight(thread)
  /\ \E r \in CreateProductRequests : Serve(r)

GetProducts ==
  /\ ~ InFlight(thread)
  /\ \E r \in GetProductsRequests : Serve(r)

GetProduct ==
  /\ ~ InFlight(thread)
  /\ \E r \in GetProductRequests : Serve(r)

UpdateProduct ==
  /\ ~ InFlight(thread)
  /\ \E r \in UpdateProductRequests : Serve(r)

DeleteProduct ==
  /\ ~ InFlight(thread)
  /\ \E r \in DeleteProductRequests : Serve(r)

CreateDescription ==
  /\ ~ InFlight(thread)
  /\ \E r \in CreateDescriptionRequests : Serve(r)

GetDescriptions ==
  /\ ~ InFlight(thread)
  /\ \E r \in GetDescriptionsRequests : Serve(r)

UpdateDescription ==
  /\ ~ InFlight(thread)
  /\ \E r \in UpdateDescriptionRequests : Serve(r)

DeleteDescription ==
  /\ ~ InFlight(thread)
  /\ \E r \in DeleteDescriptionRequests : Serve(r)

GetUom ==
  /\ ~ InFlight(thread)
  /\ \E r \in GetUomRequests : Serve(r)

GetCategories ==
  /\ ~ InFlight(thread)
  /\ \E r \in GetCategoriesRequests : Serve(r)

GetTypes ==
  /\ ~ InFlight(thread)
  /\ \E r \in GetTypesRequests : Serve(r)

Next ==
  \/ CreateItem
  \/ GetItems
  \/ GetItem
  \/ UpdateItem
  \/ DeleteItem
  \/ CreateProduct
  \/ GetProducts
  \/ GetProduct
  \/ UpdateProduct
  \/ DeleteProduct
  \/ CreateDescription
  \/ GetDescriptions
  \/ UpdateDescription
  \/ DeleteDescription
  \/ GetUom
  \/ GetCategories
  \/ GetTypes

Spec == Init /\ [][Next]_vars

(***************************************************************************)
(* SpecConc: a worker thread runs its handler one statement at a time,     *)
(* and between two of its statements another worker may serve a whole      *)
(* request (a request served before the thread's first statement is a      *)
(* request served before the thread's).  interleaved: that has happened to *)
(* the thread's request.                                                   *)
(***************************************************************************)
Requests ==
  CreateItemRequests \cup GetItemsRequests \cup GetItemRequests
    \cup UpdateItemRequests \cup DeleteItemRequests
    \cup CreateProductRequests \cup GetProductsRequests \cup GetProductRequests
    \cup UpdateProductRequests \cup DeleteProductRequests
    \cup CreateDescriptionRequests \cup GetDescriptionsRequests
    \cup UpdateDescriptionRequests \cup DeleteDescriptionRequests
    \cup GetUomRequests \cup GetCategoriesRequests \cup GetTypesRequests

ThreadStart ==
  /\ ~ InFlight(thread)
  /\ \E r \in Requests : thread' = r
  /\ interleaved' = FALSE
  /\ UNCHANGED << tables, resp >>

ThreadStep ==
  /\ InFlight(thread)
  /\ \E fault \in BOOLEAN :
       LET s == Step(DB, thread, fault)
       IN  /\ SetDB(s.db)
           /\ thread' = s.req
  /\ UNCHANGED << resp, interleaved >>

Interleave ==
  /\ InFlight(thread)
  /\ thread.pc # "begin"
  /\ \E r \in Requests : SetDB(Run(DB, r).db)
  /\ interleaved' = TRUE
  /\ UNCHANGED << resp, thread >>

NextConc ==
  \/ ThreadStart
  \/ ThreadStep
  \/ Interleave

SpecConc == Init /\ [][NextConc]_vars

(***************************************************************************)
(* Properties.  In Spec, resp is the request served by the step that led   *)
(* to the state; in an action formula the unprimed tables are the database *)
(* before the request resp' and the primed ones the database after it.     *)
(***************************************************************************)
CreateProductOp == "create_mrv_master_product"

UpdateProductOp == "update_mrv_master_product"

\* the non-null foreign keys of a MasterProduct row all name rows of their
\* lookup tables
KeysResolve(row) ==
  /\ Exists(product_description_table, row.ProdDescKey)
  /\ Exists(product_category_table, row.ProdCatKey)
  /\ row.ProdTypKey # None => Exists(product_types_table, row.ProdTypKey[1])
  /\ row.UoMKey # None => Exists(uom_table, row.UoMKey[1])

\* a foreign key of the payload names no row of its lookup table
HasMissingKey(product) ==
  \/ ~ Exists(product_description_table, product.prod_desc_key)
  \/ ~ Exists(product_category_table, product.prod_cat_key)
  \/ product.prod_typ_key # None /\ ~ Exists(product_types_table, product.prod_typ_key[1])
  \/ product.uom_key # None /\ ~ Exists(uom_table, product.uom_key[1])

\* C1: when create_mrv_master_product or update_mrv_master_product has
\* succeeded, every non-null foreign key of the row it wrote names a row of
\* its lookup table, in the database as it is at the write (the state the
\* request leaves).  Stated as the claim has it, key 0 included.
C1_WrittenKeysResolve ==
  (resp.op \in {CreateProductOp, UpdateProductOp} /\ resp.status = 200)
    => /\ Exists(mrv_master_products_table, resp.body.Id)
       /\ KeysResolve(mrv_master_products_table[resp.body.Id])

\* C2: a create_mrv_master_product whose payload holds a foreign key that
\* names no row of its lookup table is answered 400 and no table changes.
C2_MissingKeyRejected ==
  [][ (resp'.op = CreateProductOp /\ HasMissingKey(resp'.payload))
        => (resp'.status = 400 /\ tables' = tables) ]_vars

\* C3: delete_product_description of a row that exists: when no
\* MRVMasterProducts row has ProdDescKey = id the answer is 200 and exactly
\* that row is removed; when one has, the answer is 400 and nothing changes
\* (the row is still there).
C3_DeleteDescription ==
  [][ (resp'.op = "delete_product_description"
         /\ Exists(product_description_table, resp'.id))
        => IF \E i \in DOMAIN mrv_master_products_table :
                 mrv_master_products_table[i].ProdDescKey = resp'.id
           THEN /\ resp'.status = 400
                /\ tables' = tables
                /\ Exists(product_description_table', resp'.id)
           ELSE /\ resp'.status = 200
                /\ DOMAIN product_description_table'
                     = DOMAIN product_description_table \ {resp'.id}
                /\ \A i \in DOMAIN product_description_table' :
                     product_description_table'[i] = product_description_table[i]
                /\ UNCHANGED << items_table, mrv_master_products_table, uom_table,
                                product_category_table, product_types_table,
                                items_identity, mrv_identity >> ]_vars

\* C3 witness: a delete of an existing description was refused because a
\* product references it
C3_Witness ==
  /\ resp.op = "delete_product_description"
  /\ resp.status = 400
  /\ Exists(product_description_table, resp.id)
  /\ \E i \in DOMAIN mrv_master_products_table :
       mrv_master_products_table[i].ProdDescKey = resp.id

\* the table a get / update / delete by id looks its id up in
TableOf(op) ==
  CASE op \in {"get_item", "update_item", "delete_item"} -> items_table
    [] op \in {"get_mrv_master_product", UpdateProductOp, "delete_mrv_master_product"} ->
         mrv_master_products_table
    [] op \in {"update_product_description", "delete_product_description"} ->
         product_description_table

ByIdOps ==
  {"get_item", "update_item", "delete_item",
   "get_mrv_master_product", UpdateProductOp, "delete_mrv_master_product",
   "update_product_description", "delete_product_description"}

\* C4: a get, update or delete whose id names no row of its table is
\* answered 404 and no table changes, whatever the payload.  Stated for the
\* thread's request when no other request is served between its statements
\* and no query fails in the database.
C4_AbsentIdNotFound ==
  [][ ( /\ InFlight(thread)
        /\ ~ interleaved
        /\ thread.op \in ByIdOps
        /\ ~ Exists(TableOf(thread.op), thread.id)
        /\ thread'.pc = "done"
        /\ thread'.status # 500 )
        => (thread'.status = 404 /\ tables' = tables) ]_vars

\* The same statement for requests served one after another (resp, under
\* Spec), where it holds: no sequence of whole requests leaves a reference
\* to a description that is gone.
AbsentIdNotFoundOneAtATime ==
  [][ (resp'.op \in ByIdOps /\ ~ Exists(TableOf(resp'.op), resp'.id))
        => (resp'.status = 404 /\ tables' = tables) ]_vars

\* C5: a get by the Id a successful create has just returned (no request
\* in between) returns the record the create returned; every mutable field
\* has the payload's value (None where the payload omitted it) and the Id
\* is the one the IDENTITY column assigned, whatever id the payload carried.
C5_CreateThenGet ==
  [][ /\ ( /\ resp.op = "create_item" /\ resp.status = 200
           /\ resp'.op = "get_item" /\ resp'.id = resp.body.Id )
         => /\ resp'.status = 200
            /\ resp'.body = resp.body
            /\ resp.body = [Id |-> items_identity - 1,
                            Name |-> resp.payload.name,
                            Description |-> resp.payload.description,
                            Category |-> resp.payload.category]
      /\ ( /\ resp.op = CreateProductOp /\ resp.status = 200
           /\ resp'.op = "get_mrv_master_product" /\ resp'.id = resp.body.Id )
         => /\ resp'.status = 200
            /\ resp'.body = resp.body
            /\ resp.body = [Id |-> mrv_identity - 1,
                            MRV_PRODUCT_NUMBER |-> resp.payload.mrv_product_number,
                            ProdTypKey |-> resp.payload.prod_typ_key,
                            ProdDescKey |-> resp.payload.prod_desc_key,
                            ProdCatKey |-> resp.payload.prod_cat_key,
                            PRODUCT_FMMO_CLASSIFICATION |-> resp.payload.product_fmmoclassification,
                            PRODUCT_FAT_CONTENT |-> resp.payload.product_fat_content,
                            UoMKey |-> resp.payload.uom_key,
                            CONVERSION_OUNCES |-> resp.payload.conversion_ounces,
                            MRV_TYPE |-> resp.payload.mrv_type] ]_vars

\* C5 witness: the get of the product created last returned it: the row of
\* the payload that carried id 2 and omitted its optional fields, under the
\* assigned Id 1
C5_Witness ==
  /\ resp.op = "get_mrv_master_product"
  /\ resp.status = 200
  /\ resp.id = mrv_identity - 1
  /\ resp.body.Id = 1
  /\ resp.body.ProdDescKey = 2
  /\ resp.body.UoMKey = None

\* every row of the table but the one with this id is as it was
OthersUnchanged(before, after, id) ==
  /\ DOMAIN after = DOMAIN before
  /\ \A i \in DOMAIN before \ {id} : after[i] = before[i]

\* C6: a successful update changes only the row whose Id is the path id:
\* the row keeps its Id, the other rows of the table and all other tables
\* are unchanged.
C6_UpdateFrame ==
  [][ /\ (resp'.op = "update_item" /\ resp'.status = 200)
         => /\ OthersUnchanged(items_table, items_table', resp'.id)
            /\ items_table'[resp'.id].Id = resp'.id
            /\ UNCHANGED << mrv_master_products_table, product_description_table,
                            uom_table, product_category_table, product_types_table,
                            items_identity, mrv_identity >>
      /\ (resp'.op = UpdateProductOp /\ resp'.status = 200)
         => /\ OthersUnchanged(mrv_master_products_table, mrv_master_products_table',
                               resp'.id)
            /\ mrv_master_products_table'[resp'.id].Id = resp'.id
            /\ UNCHANGED << items_table, product_description_table,
                            uom_table, product_category_table, product_types_table,
                            items_identity, mrv_identity >>
      /\ (resp'.op = "update_product_description" /\ resp'.status = 200)
         => /\ OthersUnchanged(product_description_table, product_description_table',
                               resp'.id)
            /\ product_description_table'[resp'.id].Id = resp'.id
            /\ UNCHANGED << items_table, mrv_master_products_table,
                            uom_table, product_category_table, product_types_table,
                            items_identity, mrv_identity >> ]_vars

\* C6 witness: a product was updated while the table held another product
\* with other values
C6_Witness ==
  /\ resp.op = UpdateProductOp
  /\ resp.status = 200
  /\ \E i \in DOMAIN mrv_master_products_table :
       /\ i # resp.id
       /\ mrv_master_products_table[i].MRV_PRODUCT_NUMBER
            # mrv_master_products_table[resp.id].MRV_PRODUCT_NUMBER

\* C7: a get that follows a successful delete of the same id is answered
\* 404, for Items and for MRVMasterProducts; and a row that is gone stays
\* gone (the IDENTITY columns hand no id out twice), so every later get is
\* answered 404 too.
C7_DeletedNotReadable ==
  [][ /\ ( /\ resp.op = "delete_item" /\ resp.status = 200
           /\ resp'.op = "get_item" /\ resp'.id = resp.id )
         => resp'.status = 404
      /\ ( /\ resp.op = "delete_mrv_master_product" /\ resp.status = 200
           /\ resp'.op = "get_mrv_master_product" /\ resp'.id = resp.id )
         => resp'.status = 404
      /\ \A id \in PathIds :
           /\ (id < items_identity /\ ~ Exists(items_table, id))
                => ~ Exists(items_table', id)
           /\ (id < mrv_identity /\ ~ Exists(mrv_master_products_table, id))
                => ~ Exists(mrv_master_products_table', id) ]_vars

\* C7 witness: a get of an item id that had been handed out was answered 404
C7_Witness ==
  /\ resp.op = "get_item"
  /\ resp.status = 404
  /\ resp.id < items_identity

\* C8: a request opens one session, which is open while the handler runs
\* and closed once the request has completed, however it completed: by
\* return, by 404, by 400, or by a failure in the database.
C8_SessionClosed ==
  /\ InFlight(thread) => (thread.opened = 1 /\ thread.session = "open")
  /\ thread.pc = "done" => (thread.opened = 1 /\ thread.session = "closed")

\* C8 witness: create_mrv_master_product committed its insert and the
\* re-read then failed in the database: answered 500, the session closed
C8_Witness ==
  /\ thread.pc = "done"
  /\ thread.op = CreateProductOp
  /\ thread.status = 500
  /\ thread.key # 0
  /\ Exists(mrv_master_products_table, thread.key)
  /\ thread.session = "closed"

\* a MRVMasterProducts row whose ProdDescKey names no ProductDescription row
Dangling ==
  \E i \in DOMAIN mrv_master_products_table :
    ~ Exists(product_description_table, mrv_master_products_table[i].ProdDescKey)

\* C9: a state with a dangling ProdDescKey arises only by a statement of a
\* request that another request was interleaved with: never when requests
\* run one after another.  (That interleaved requests do reach it, both
\* answered 200, is the witness.)
C9_DanglingOnlyByRace ==
  [][ (~ Dangling /\ Dangling') => (interleaved /\ interleaved') ]_vars

\* C9 witness: the thread's create or update validated the key, another
\* worker's delete_product_description removed the row (it found no
\* dependent), then the thread wrote: answered 200, and the row it wrote
\* references a description that is gone
C9_Witness ==
  /\ thread.pc = "done"
  /\ thread.op \in {CreateProductOp, UpdateProductOp}
  /\ thread.status = 200
  /\ interleaved
  /\ Exists(mrv_master_products_table, thread.body.Id)
  /\ mrv_master_products_table[thread.body.Id] = thread.body
  /\ ~ Exists(product_description_table, thread.body.ProdDescKey)

\* C10: a successful update overwrites every mutable field of the row with
\* the payload's value (None where the payload omits an optional field) and
\* returns the row as re-read; update_product_description overwrites the
\* text only, under the path id, whatever id the body carries; a get or a
\* list that follows shows those values under the path id.
ItemValues(id, item) ==
  [Id |-> id, Name |-> item.name, Description |-> item.description,
   Category |-> item.category]

ProductValues(id, product) ==
  [Id |-> id,
   MRV_PRODUCT_NUMBER |-> product.mrv_product_number,
   ProdTypKey |-> product.prod_typ_key,
   ProdDescKey |-> product.prod_desc_key,
   ProdCatKey |-> product.prod_cat_key,
   PRODUCT_FMMO_CLASSIFICATION |-> product.product_fmmoclassification,
   PRODUCT_FAT_CONTENT |-> product.product_fat_content,
   UoMKey |-> product.uom_key,
   CONVERSION_OUNCES |-> product.conversion_ounces,
   MRV_TYPE |-> product.mrv_type]

DescriptionValues(id, description) ==
  [Id |-> id, Product_Description |-> description.product_description]

InList(row, list) == \E k \in 1 .. Len(list) : list[k] = row

C10_UpdateOverwrites ==
  [][ /\ (resp'.op = "update_item" /\ resp'.status = 200)
         => /\ items_table'[resp'.id] = ItemValues(resp'.id, resp'.payload)
            /\ resp'.body = items_table'[resp'.id]
      /\ (resp'.op = UpdateProductOp /\ resp'.status = 200)
         => /\ mrv_master_products_table'[resp'.id] = ProductValues(resp'.id, resp'.payload)
            /\ resp'.body = mrv_master_products_table'[resp'.id]
      /\ (resp'.op = "update_product_description" /\ resp'.status = 200)
         => /\ product_description_table'[resp'.id]
                 = DescriptionValues(resp'.id, resp'.payload)
            /\ resp'.body = product_description_table'[resp'.id]
      /\ (resp.op = "update_item" /\ resp.status = 200)
         => /\ (resp'.op = "get_item" /\ resp'.id = resp.id)
                 => resp'.body = ItemValues(resp.id, resp.payload)
            /\ resp'.op = "get_items"
                 => InList(ItemValues(resp.id, resp.payload), resp'.body)
      /\ (resp.op = UpdateProductOp /\ resp.status = 200)
         => /\ (resp'.op = "get_mrv_master_product" /\ resp'.id = resp.id)
                 => resp'.body = ProductValues(resp.id, resp.payload)
            /\ resp'.op = "get_mrv_master_products"
                 => InList(ProductValues(resp.id, resp.payload), resp'.body)
      /\ (resp.op = "update_product_description" /\ resp.status = 200)
         => (resp'.op = "get_product_descriptions"
               => InList(DescriptionValues(resp.id, resp.payload), resp'.body)) ]_vars

\* C10 witness: an update_product_description whose body carried the id of
\* another row was answered 200: the row of the path id has the new text,
\* the row of the body's id has not
C10_Witness ==
  /\ resp.op = "update_product_description"
  /\ resp.status = 200
  /\ resp.payload.id # resp.id
  /\ Exists(product_description_table, resp.payload.id)
  /\ product_description_table[resp.id].Product_Description
       = resp.payload.product_description
  /\ product_description_table[resp.payload.id].Product_Description
       # resp.payload.product_description

\* C11: no step of the service changes uom_table, product_category_table or
\* product_types_table, so at every moment the three hold what they held
\* before the first request; and a step that adds a row to
\* mrv_master_products_table adds one whose ProdCatKey names a row that
\* product_category_table held before the step.
C11_LookupTablesFixed ==
  [][ /\ uom_table' = uom_table
      /\ product_category_table' = product_category_table
      /\ product_types_table' = product_types_table
      /\ \A id \in DOMAIN mrv_master_products_table'
                    \ DOMAIN mrv_master_products_table :
           Exists(product_category_table,
                  mrv_master_products_table'[id].ProdCatKey) ]_vars

\* C11 witness: a create_mrv_master_product has been answered 200 and its
\* row is in the table, naming a ProductCategory row that is there, while
\* product descriptions were created along the way and the lookup tables
\* still hold their one row each
C11_Witness ==
  /\ resp.op = CreateProductOp
  /\ resp.status = 200
  /\ Exists(mrv_master_products_table, resp.body.Id)
  /\ Exists(product_category_table,
            mrv_master_products_table[resp.body.Id].ProdCatKey)
  /\ DOMAIN product_description_table = DescIds
  /\ DOMAIN uom_table = {1}
  /\ DOMAIN product_category_table = {1}
  /\ DOMAIN product_types_table = {1}

=============================================================================
